---- MODULE Spec2Model ----
(***************************************************************************)
(* failman: polls a buildbot REST API for the latest change of every       *)
(* configured branch, joins the builds of that change with the builder     *)
(* roster, keeps the rows whose status is not a healthy / in-progress      *)
(* marker and mails them as an HTML table with a CSV attachment.           *)
(*                                                                         *)
(* Python strings that the program inspects, compares or concatenates are  *)
(* sequences of Unicode code points; a Python value that may be None is    *)
(* None (the empty tuple) or Some(v) (a one-element tuple).                *)
(***************************************************************************)
EXTENDS Integers, Sequences, FiniteSets, TLC

VARIABLES
    pc,             \* position of __main__
    config,         \* the loaded configuration document
    builders,       \* the (filtered) builder roster
    branch_idx,     \* index of the next branch of the for loop
    BUILDS,         \* the accumulated rows
    failed_builds,  \* the classified rows
    calls,          \* the external calls made so far, in order, each with its answer
    stdout,         \* lines printed
    exc,            \* the uncaught exception that ended the process, if any
    h_pc,           \* function harness: "off", "ready" or "returned"
    h_fn,           \* function harness: the function under call
    h_args,         \* function harness: its arguments
    h_ret           \* function harness: its return value

vars == <<pc, config, builders, branch_idx, BUILDS, failed_builds, calls, stdout, exc,
          h_pc, h_fn, h_args, h_ret>>

run_vars == <<pc, config, builders, branch_idx, BUILDS, failed_builds, calls, stdout, exc>>

harness_vars == <<h_pc, h_fn, h_args, h_ret>>

-----------------------------------------------------------------------------
(* Python values *)

None == <<>>

Some(v) == <<v>>

\* the value of a Some
the(o) == o[1]

\* a returned value, or a raised exception
Return(v) == [ok |-> TRUE, val |-> v]

Raise(e) == [ok |-> FALSE, exc |-> e]

-----------------------------------------------------------------------------
(* str *)

\* the simple lower-case mappings of the Unicode database of the interpreter
\* (14.0.0), as runs <<first, last, step, delta>>: the code points first,
\* first + step, ..., last map to themselves plus delta
lower_runs ==
    {
      <<65, 90, 1, 32>>, <<192, 214, 1, 32>>, <<216, 222, 1, 32>>,
      <<256, 302, 2, 1>>, <<306, 310, 2, 1>>, <<313, 327, 2, 1>>,
      <<330, 374, 2, 1>>, <<376, 376, 1, -121>>, <<377, 381, 2, 1>>,
      <<385, 385, 1, 210>>, <<386, 388, 2, 1>>, <<390, 390, 1, 206>>,
      <<391, 391, 1, 1>>, <<393, 394, 1, 205>>, <<395, 395, 1, 1>>,
      <<398, 398, 1, 79>>, <<399, 399, 1, 202>>, <<400, 400, 1, 203>>,
      <<401, 401, 1, 1>>, <<403, 403, 1, 205>>, <<404, 404, 1, 207>>,
      <<406, 406, 1, 211>>, <<407, 407, 1, 209>>, <<408, 408, 1, 1>>,
      <<412, 412, 1, 211>>, <<413, 413, 1, 213>>, <<415, 415, 1, 214>>,
      <<416, 420, 2, 1>>, <<422, 422, 1, 218>>, <<423, 423, 1, 1>>,
      <<425, 425, 1, 218>>, <<428, 428, 1, 1>>, <<430, 430, 1, 218>>,
      <<431, 431, 1, 1>>, <<433, 434, 1, 217>>, <<435, 437, 2, 1>>,
      <<439, 439, 1, 219>>, <<440, 440, 1, 1>>, <<444, 444, 1, 1>>,
      <<452, 452, 1, 2>>, <<453, 453, 1, 1>>, <<455, 455, 1, 2>>,
      <<456, 456, 1, 1>>, <<458, 458, 1, 2>>, <<459, 475, 2, 1>>,
      <<478, 494, 2, 1>>, <<497, 497, 1, 2>>, <<498, 500, 2, 1>>,
      <<502, 502, 1, -97>>, <<503, 503, 1, -56>>, <<504, 542, 2, 1>>,
      <<544, 544, 1, -130>>, <<546, 562, 2, 1>>, <<570, 570, 1, 10795>>,
      <<571, 571, 1, 1>>, <<573, 573, 1, -163>>, <<574, 574, 1, 10792>>,
      <<577, 577, 1, 1>>, <<579, 579, 1, -195>>, <<580, 580, 1, 69>>,
      <<581, 581, 1, 71>>, <<582, 590, 2, 1>>, <<880, 882, 2, 1>>,
      <<886, 886, 1, 1>>, <<895, 895, 1, 116>>, <<902, 902, 1, 38>>,
      <<904, 906, 1, 37>>, <<908, 908, 1, 64>>, <<910, 911, 1, 63>>,
      <<913, 929, 1, 32>>, <<931, 939, 1, 32>>, <<975, 975, 1, 8>>,
      <<984, 1006, 2, 1>>, <<1012, 1012, 1, -60>>, <<1015, 1015, 1, 1>>,
      <<1017, 1017, 1, -7>>, <<1018, 1018, 1, 1>>, <<1021, 1023, 1, -130>>,
      <<1024, 1039, 1, 80>>, <<1040, 1071, 1, 32>>, <<1120, 1152, 2, 1>>,
      <<1162, 1214, 2, 1>>, <<1216, 1216, 1, 15>>, <<1217, 1229, 2, 1>>,
      <<1232, 1326, 2, 1>>, <<1329, 1366, 1, 48>>, <<4256, 4293, 1, 7264>>,
      <<4295, 4295, 1, 7264>>, <<4301, 4301, 1, 7264>>,
      <<5024, 5103, 1, 38864>>, <<5104, 5109, 1, 8>>,
      <<7312, 7354, 1, -3008>>, <<7357, 7359, 1, -3008>>,
      <<7680, 7828, 2, 1>>, <<7838, 7838, 1, -7615>>, <<7840, 7934, 2, 1>>,
      <<7944, 7951, 1, -8>>, <<7960, 7965, 1, -8>>, <<7976, 7983, 1, -8>>,
      <<7992, 7999, 1, -8>>, <<8008, 8013, 1, -8>>, <<8025, 8031, 2, -8>>,
      <<8040, 8047, 1, -8>>, <<8072, 8079, 1, -8>>, <<8088, 8095, 1, -8>>,
      <<8104, 8111, 1, -8>>, <<8120, 8121, 1, -8>>, <<8122, 8123, 1, -74>>,
      <<8124, 8124, 1, -9>>, <<8136, 8139, 1, -86>>, <<8140, 8140, 1, -9>>,
      <<8152, 8153, 1, -8>>, <<8154, 8155, 1, -100>>, <<8168, 8169, 1, -8>>,
      <<8170, 8171, 1, -112>>, <<8172, 8172, 1, -7>>, <<8184, 8185, 1, -128>>,
      <<8186, 8187, 1, -126>>, <<8188, 8188, 1, -9>>,
      <<8486, 8486, 1, -7517>>, <<8490, 8490, 1, -8383>>,
      <<8491, 8491, 1, -8262>>, <<8498, 8498, 1, 28>>, <<8544, 8559, 1, 16>>,
      <<8579, 8579, 1, 1>>, <<9398, 9423, 1, 26>>, <<11264, 11311, 1, 48>>,
      <<11360, 11360, 1, 1>>, <<11362, 11362, 1, -10743>>,
      <<11363, 11363, 1, -3814>>, <<11364, 11364, 1, -10727>>,
      <<11367, 11371, 2, 1>>, <<11373, 11373, 1, -10780>>,
      <<11374, 11374, 1, -10749>>, <<11375, 11375, 1, -10783>>,
      <<11376, 11376, 1, -10782>>, <<11378, 11378, 1, 1>>,
      <<11381, 11381, 1, 1>>, <<11390, 11391, 1, -10815>>,
      <<11392, 11490, 2, 1>>, <<11499, 11501, 2, 1>>, <<11506, 11506, 1, 1>>,
      <<42560, 42604, 2, 1>>, <<42624, 42650, 2, 1>>, <<42786, 42798, 2, 1>>,
      <<42802, 42862, 2, 1>>, <<42873, 42875, 2, 1>>,
      <<42877, 42877, 1, -35332>>, <<42878, 42886, 2, 1>>,
      <<42891, 42891, 1, 1>>, <<42893, 42893, 1, -42280>>,
      <<42896, 42898, 2, 1>>, <<42902, 42920, 2, 1>>,
      <<42922, 42922, 1, -42308>>, <<42923, 42923, 1, -42319>>,
      <<42924, 42924, 1, -42315>>, <<42925, 42925, 1, -42305>>,
      <<42926, 42926, 1, -42308>>, <<42928, 42928, 1, -42258>>,
      <<42929, 42929, 1, -42282>>, <<42930, 42930, 1, -42261>>,
      <<42931, 42931, 1, 928>>, <<42932, 42946, 2, 1>>,
      <<42948, 42948, 1, -48>>, <<42949, 42949, 1, -42307>>,
      <<42950, 42950, 1, -35384>>, <<42951, 42953, 2, 1>>,
      <<42960, 42960, 1, 1>>, <<42966, 42968, 2, 1>>, <<42997, 42997, 1, 1>>,
      <<65313, 65338, 1, 32>>, <<66560, 66599, 1, 40>>,
      <<66736, 66771, 1, 40>>, <<66928, 66938, 1, 39>>,
      <<66940, 66954, 1, 39>>, <<66956, 66962, 1, 39>>,
      <<66964, 66965, 1, 39>>, <<68736, 68786, 1, 64>>,
      <<71840, 71871, 1, 32>>, <<93760, 93791, 1, 32>>,
      <<125184, 125217, 1, 34>>
    }

\* the code points with the Unicode property Cased, as ranges <<first, last>>
cased_ranges ==
    {
      <<65, 90>>, <<97, 122>>, <<170, 170>>, <<181, 181>>, <<186, 186>>,
      <<192, 214>>, <<216, 246>>, <<248, 442>>, <<444, 447>>, <<452, 659>>,
      <<661, 696>>, <<704, 705>>, <<736, 740>>, <<837, 837>>, <<880, 883>>,
      <<886, 887>>, <<890, 893>>, <<895, 895>>, <<902, 902>>, <<904, 906>>,
      <<908, 908>>, <<910, 929>>, <<931, 1013>>, <<1015, 1153>>,
      <<1162, 1327>>, <<1329, 1366>>, <<1376, 1416>>, <<4256, 4293>>,
      <<4295, 4295>>, <<4301, 4301>>, <<4304, 4346>>, <<4349, 4351>>,
      <<5024, 5109>>, <<5112, 5117>>, <<7296, 7304>>, <<7312, 7354>>,
      <<7357, 7359>>, <<7424, 7615>>, <<7680, 7957>>, <<7960, 7965>>,
      <<7968, 8005>>, <<8008, 8013>>, <<8016, 8023>>, <<8025, 8025>>,
      <<8027, 8027>>, <<8029, 8029>>, <<8031, 8061>>, <<8064, 8116>>,
      <<8118, 8124>>, <<8126, 8126>>, <<8130, 8132>>, <<8134, 8140>>,
      <<8144, 8147>>, <<8150, 8155>>, <<8160, 8172>>, <<8178, 8180>>,
      <<8182, 8188>>, <<8305, 8305>>, <<8319, 8319>>, <<8336, 8348>>,
      <<8450, 8450>>, <<8455, 8455>>, <<8458, 8467>>, <<8469, 8469>>,
      <<8473, 8477>>, <<8484, 8484>>, <<8486, 8486>>, <<8488, 8488>>,
      <<8490, 8493>>, <<8495, 8500>>, <<8505, 8505>>, <<8508, 8511>>,
      <<8517, 8521>>, <<8526, 8526>>, <<8544, 8575>>, <<8579, 8580>>,
      <<9398, 9449>>, <<11264, 11492>>, <<11499, 11502>>, <<11506, 11507>>,
      <<11520, 11557>>, <<11559, 11559>>, <<11565, 11565>>, <<42560, 42605>>,
      <<42624, 42653>>, <<42786, 42887>>, <<42891, 42894>>, <<42896, 42954>>,
      <<42960, 42961>>, <<42963, 42963>>, <<42965, 42969>>, <<42997, 42998>>,
      <<43000, 43002>>, <<43824, 43866>>, <<43868, 43880>>, <<43888, 43967>>,
      <<64256, 64262>>, <<64275, 64279>>, <<65313, 65338>>, <<65345, 65370>>,
      <<66560, 66639>>, <<66736, 66771>>, <<66776, 66811>>, <<66928, 66938>>,
      <<66940, 66954>>, <<66956, 66962>>, <<66964, 66965>>, <<66967, 66977>>,
      <<66979, 66993>>, <<66995, 67001>>, <<67003, 67004>>, <<67456, 67456>>,
      <<67459, 67461>>, <<67463, 67504>>, <<67506, 67514>>, <<68736, 68786>>,
      <<68800, 68850>>, <<71840, 71903>>, <<93760, 93823>>,
      <<119808, 119892>>, <<119894, 119964>>, <<119966, 119967>>,
      <<119970, 119970>>, <<119973, 119974>>, <<119977, 119980>>,
      <<119982, 119993>>, <<119995, 119995>>, <<119997, 120003>>,
      <<120005, 120069>>, <<120071, 120074>>, <<120077, 120084>>,
      <<120086, 120092>>, <<120094, 120121>>, <<120123, 120126>>,
      <<120128, 120132>>, <<120134, 120134>>, <<120138, 120144>>,
      <<120146, 120485>>, <<120488, 120512>>, <<120514, 120538>>,
      <<120540, 120570>>, <<120572, 120596>>, <<120598, 120628>>,
      <<120630, 120654>>, <<120656, 120686>>, <<120688, 120712>>,
      <<120714, 120744>>, <<120746, 120770>>, <<120772, 120779>>,
      <<122624, 122633>>, <<122635, 122654>>, <<125184, 125251>>,
      <<127280, 127305>>, <<127312, 127337>>, <<127344, 127369>>
    }

\* the code points with the Unicode property Case_Ignorable
case_ignorable_ranges ==
    {
      <<39, 39>>, <<46, 46>>, <<58, 58>>, <<94, 94>>, <<96, 96>>,
      <<168, 168>>, <<173, 173>>, <<175, 175>>, <<180, 180>>, <<183, 184>>,
      <<688, 879>>, <<884, 885>>, <<890, 890>>, <<900, 901>>, <<903, 903>>,
      <<1155, 1161>>, <<1369, 1369>>, <<1375, 1375>>, <<1425, 1469>>,
      <<1471, 1471>>, <<1473, 1474>>, <<1476, 1477>>, <<1479, 1479>>,
      <<1524, 1524>>, <<1536, 1541>>, <<1552, 1562>>, <<1564, 1564>>,
      <<1600, 1600>>, <<1611, 1631>>, <<1648, 1648>>, <<1750, 1757>>,
      <<1759, 1768>>, <<1770, 1773>>, <<1807, 1807>>, <<1809, 1809>>,
      <<1840, 1866>>, <<1958, 1968>>, <<2027, 2037>>, <<2042, 2042>>,
      <<2045, 2045>>, <<2070, 2093>>, <<2137, 2139>>, <<2184, 2184>>,
      <<2192, 2193>>, <<2200, 2207>>, <<2249, 2306>>, <<2362, 2362>>,
      <<2364, 2364>>, <<2369, 2376>>, <<2381, 2381>>, <<2385, 2391>>,
      <<2402, 2403>>, <<2417, 2417>>, <<2433, 2433>>, <<2492, 2492>>,
      <<2497, 2500>>, <<2509, 2509>>, <<2530, 2531>>, <<2558, 2558>>,
      <<2561, 2562>>, <<2620, 2620>>, <<2625, 2626>>, <<2631, 2632>>,
      <<2635, 2637>>, <<2641, 2641>>, <<2672, 2673>>, <<2677, 2677>>,
      <<2689, 2690>>, <<2748, 2748>>, <<2753, 2757>>, <<2759, 2760>>,
      <<2765, 2765>>, <<2786, 2787>>, <<2810, 2815>>, <<2817, 2817>>,
      <<2876, 2876>>, <<2879, 2879>>, <<2881, 2884>>, <<2893, 2893>>,
      <<2901, 2902>>, <<2914, 2915>>, <<2946, 2946>>, <<3008, 3008>>,
      <<3021, 3021>>, <<3072, 3072>>, <<3076, 3076>>, <<3132, 3132>>,
      <<3134, 3136>>, <<3142, 3144>>, <<3146, 3149>>, <<3157, 3158>>,
      <<3170, 3171>>, <<3201, 3201>>, <<3260, 3260>>, <<3263, 3263>>,
      <<3270, 3270>>, <<3276, 3277>>, <<3298, 3299>>, <<3328, 3329>>,
      <<3387, 3388>>, <<3393, 3396>>, <<3405, 3405>>, <<3426, 3427>>,
      <<3457, 3457>>, <<3530, 3530>>, <<3538, 3540>>, <<3542, 3542>>,
      <<3633, 3633>>, <<3636, 3642>>, <<3654, 3662>>, <<3761, 3761>>,
      <<3764, 3772>>, <<3782, 3782>>, <<3784, 3789>>, <<3864, 3865>>,
      <<3893, 3893>>, <<3895, 3895>>, <<3897, 3897>>, <<3953, 3966>>,
      <<3968, 3972>>, <<3974, 3975>>, <<3981, 3991>>, <<3993, 4028>>,
      <<4038, 4038>>, <<4141, 4144>>, <<4146, 4151>>, <<4153, 4154>>,
      <<4157, 4158>>, <<4184, 4185>>, <<4190, 4192>>, <<4209, 4212>>,
      <<4226, 4226>>, <<4229, 4230>>, <<4237, 4237>>, <<4253, 4253>>,
      <<4348, 4348>>, <<4957, 4959>>, <<5906, 5908>>, <<5938, 5939>>,
      <<5970, 5971>>, <<6002, 6003>>, <<6068, 6069>>, <<6071, 6077>>,
      <<6086, 6086>>, <<6089, 6099>>, <<6103, 6103>>, <<6109, 6109>>,
      <<6155, 6159>>, <<6211, 6211>>, <<6277, 6278>>, <<6313, 6313>>,
      <<6432, 6434>>, <<6439, 6440>>, <<6450, 6450>>, <<6457, 6459>>,
      <<6679, 6680>>, <<6683, 6683>>, <<6742, 6742>>, <<6744, 6750>>,
      <<6752, 6752>>, <<6754, 6754>>, <<6757, 6764>>, <<6771, 6780>>,
      <<6783, 6783>>, <<6823, 6823>>, <<6832, 6862>>, <<6912, 6915>>,
      <<6964, 6964>>, <<6966, 6970>>, <<6972, 6972>>, <<6978, 6978>>,
      <<7019, 7027>>, <<7040, 7041>>, <<7074, 7077>>, <<7080, 7081>>,
      <<7083, 7085>>, <<7142, 7142>>, <<7144, 7145>>, <<7149, 7149>>,
      <<7151, 7153>>, <<7212, 7219>>, <<7222, 7223>>, <<7288, 7293>>,
      <<7376, 7378>>, <<7380, 7392>>, <<7394, 7400>>, <<7405, 7405>>,
      <<7412, 7412>>, <<7416, 7417>>, <<7468, 7530>>, <<7544, 7544>>,
      <<7579, 7679>>, <<8125, 8125>>, <<8127, 8129>>, <<8141, 8143>>,
      <<8157, 8159>>, <<8173, 8175>>, <<8189, 8190>>, <<8203, 8207>>,
      <<8216, 8217>>, <<8228, 8228>>, <<8231, 8231>>, <<8234, 8238>>,
      <<8288, 8292>>, <<8294, 8303>>, <<8305, 8305>>, <<8319, 8319>>,
      <<8336, 8348>>, <<8400, 8432>>, <<11388, 11389>>, <<11503, 11505>>,
      <<11631, 11631>>, <<11647, 11647>>, <<11744, 11775>>, <<11823, 11823>>,
      <<12293, 12293>>, <<12330, 12333>>, <<12337, 12341>>, <<12347, 12347>>,
      <<12441, 12446>>, <<12540, 12542>>, <<40981, 40981>>, <<42232, 42237>>,
      <<42508, 42508>>, <<42607, 42610>>, <<42612, 42621>>, <<42623, 42623>>,
      <<42652, 42655>>, <<42736, 42737>>, <<42752, 42785>>, <<42864, 42864>>,
      <<42888, 42890>>, <<42994, 42996>>, <<43000, 43001>>, <<43010, 43010>>,
      <<43014, 43014>>, <<43019, 43019>>, <<43045, 43046>>, <<43052, 43052>>,
      <<43204, 43205>>, <<43232, 43249>>, <<43263, 43263>>, <<43302, 43309>>,
      <<43335, 43345>>, <<43392, 43394>>, <<43443, 43443>>, <<43446, 43449>>,
      <<43452, 43453>>, <<43471, 43471>>, <<43493, 43494>>, <<43561, 43566>>,
      <<43569, 43570>>, <<43573, 43574>>, <<43587, 43587>>, <<43596, 43596>>,
      <<43632, 43632>>, <<43644, 43644>>, <<43696, 43696>>, <<43698, 43700>>,
      <<43703, 43704>>, <<43710, 43711>>, <<43713, 43713>>, <<43741, 43741>>,
      <<43756, 43757>>, <<43763, 43764>>, <<43766, 43766>>, <<43867, 43871>>,
      <<43881, 43883>>, <<44005, 44005>>, <<44008, 44008>>, <<44013, 44013>>,
      <<64286, 64286>>, <<64434, 64450>>, <<65024, 65039>>, <<65043, 65043>>,
      <<65056, 65071>>, <<65106, 65106>>, <<65109, 65109>>, <<65279, 65279>>,
      <<65287, 65287>>, <<65294, 65294>>, <<65306, 65306>>, <<65342, 65342>>,
      <<65344, 65344>>, <<65392, 65392>>, <<65438, 65439>>, <<65507, 65507>>,
      <<65529, 65531>>, <<66045, 66045>>, <<66272, 66272>>, <<66422, 66426>>,
      <<67456, 67461>>, <<67463, 67504>>, <<67506, 67514>>, <<68097, 68099>>,
      <<68101, 68102>>, <<68108, 68111>>, <<68152, 68154>>, <<68159, 68159>>,
      <<68325, 68326>>, <<68900, 68903>>, <<69291, 69292>>, <<69446, 69456>>,
      <<69506, 69509>>, <<69633, 69633>>, <<69688, 69702>>, <<69744, 69744>>,
      <<69747, 69748>>, <<69759, 69761>>, <<69811, 69814>>, <<69817, 69818>>,
      <<69821, 69821>>, <<69826, 69826>>, <<69837, 69837>>, <<69888, 69890>>,
      <<69927, 69931>>, <<69933, 69940>>, <<70003, 70003>>, <<70016, 70017>>,
      <<70070, 70078>>, <<70089, 70092>>, <<70095, 70095>>, <<70191, 70193>>,
      <<70196, 70196>>, <<70198, 70199>>, <<70206, 70206>>, <<70367, 70367>>,
      <<70371, 70378>>, <<70400, 70401>>, <<70459, 70460>>, <<70464, 70464>>,
      <<70502, 70508>>, <<70512, 70516>>, <<70712, 70719>>, <<70722, 70724>>,
      <<70726, 70726>>, <<70750, 70750>>, <<70835, 70840>>, <<70842, 70842>>,
      <<70847, 70848>>, <<70850, 70851>>, <<71090, 71093>>, <<71100, 71101>>,
      <<71103, 71104>>, <<71132, 71133>>, <<71219, 71226>>, <<71229, 71229>>,
      <<71231, 71232>>, <<71339, 71339>>, <<71341, 71341>>, <<71344, 71349>>,
      <<71351, 71351>>, <<71453, 71455>>, <<71458, 71461>>, <<71463, 71467>>,
      <<71727, 71735>>, <<71737, 71738>>, <<71995, 71996>>, <<71998, 71998>>,
      <<72003, 72003>>, <<72148, 72151>>, <<72154, 72155>>, <<72160, 72160>>,
      <<72193, 72202>>, <<72243, 72248>>, <<72251, 72254>>, <<72263, 72263>>,
      <<72273, 72278>>, <<72281, 72283>>, <<72330, 72342>>, <<72344, 72345>>,
      <<72752, 72758>>, <<72760, 72765>>, <<72767, 72767>>, <<72850, 72871>>,
      <<72874, 72880>>, <<72882, 72883>>, <<72885, 72886>>, <<73009, 73014>>,
      <<73018, 73018>>, <<73020, 73021>>, <<73023, 73029>>, <<73031, 73031>>,
      <<73104, 73105>>, <<73109, 73109>>, <<73111, 73111>>, <<73459, 73460>>,
      <<78896, 78904>>, <<92912, 92916>>, <<92976, 92982>>, <<92992, 92995>>,
      <<94031, 94031>>, <<94095, 94111>>, <<94176, 94177>>, <<94179, 94180>>,
      <<110576, 110579>>, <<110581, 110587>>, <<110589, 110590>>,
      <<113821, 113822>>, <<113824, 113827>>, <<118528, 118573>>,
      <<118576, 118598>>, <<119143, 119145>>, <<119155, 119170>>,
      <<119173, 119179>>, <<119210, 119213>>, <<119362, 119364>>,
      <<121344, 121398>>, <<121403, 121452>>, <<121461, 121461>>,
      <<121476, 121476>>, <<121499, 121503>>, <<121505, 121519>>,
      <<122880, 122886>>, <<122888, 122904>>, <<122907, 122913>>,
      <<122915, 122916>>, <<122918, 122922>>, <<123184, 123197>>,
      <<123566, 123566>>, <<123628, 123631>>, <<125136, 125142>>,
      <<125252, 125259>>, <<127995, 127999>>, <<917505, 917505>>,
      <<917536, 917631>>, <<917760, 917999>>
    }

\* membership in a table of ranges <<first, last>>
in_ranges(c, ranges) == \E r \in ranges : r[1] <= c /\ c <= r[2]

\* the code point has the property Cased
IsCased(c) == in_ranges(c, cased_ranges)

\* the code point has the property Case_Ignorable
IsCaseIgnorable(c) == in_ranges(c, case_ignorable_ranges)

\* the run of lower_runs the code point belongs to, if any
lower_run_of(c) ==
    {r \in lower_runs : r[1] <= c /\ c <= r[2] /\ (c - r[1]) % r[3] = 0}

\* str.lower on a string of one code point c, as a string: ASCII by the
\* ASCII rule; U+0130, the one code point whose lower case is two code points;
\* every other code point by its simple mapping, or itself
lower_char(c) ==
    IF c < 128 THEN (IF c >= 65 /\ c <= 90 THEN <<c + 32>> ELSE <<c>>)
    ELSE IF c = 304 THEN <<105, 775>>
    ELSE IF lower_run_of(c) = {} THEN <<c>>
    ELSE LET r == CHOOSE r \in lower_run_of(c) : TRUE
         IN  <<c + r[4]>>

\* the lower case of the capital sigma at s[i]: the final form U+03C2 when a
\* cased code point stands before it and none after it, code points that are
\* Case_Ignorable not counted; U+03C3 otherwise
handle_capital_sigma(s, i) ==
    LET before == {j \in 1..(i - 1) : ~IsCaseIgnorable(s[j])}
        after == {j \in (i + 1)..Len(s) : ~IsCaseIgnorable(s[j])}
        last_before == CHOOSE j \in before : \A k \in before : k <= j
        first_after == CHOOSE j \in after : \A k \in after : j <= k
        final_sigma ==
            /\ before # {}
            /\ IsCased(s[last_before])
            /\ (after = {} \/ ~IsCased(s[first_after]))
    IN  IF final_sigma THEN 962 ELSE 963

\* the lower case of the code points s[i], s[i + 1], ...
RECURSIVE lower_from(_, _)
lower_from(s, i) ==
    IF i > Len(s) THEN <<>>
    ELSE (IF s[i] = 931 THEN <<handle_capital_sigma(s, i)>> ELSE lower_char(s[i]))
             \o lower_from(s, i + 1)

\* str.lower
lower(s) == lower_from(s, 1)

\* a < b on str: code point by code point, a proper prefix is smaller
RECURSIVE str_lt(_, _)
str_lt(a, b) ==
    IF b = <<>> THEN FALSE
    ELSE IF a = <<>> THEN TRUE
    ELSE IF a[1] # b[1] THEN a[1] < b[1]
    ELSE str_lt(Tail(a), Tail(b))

\* str(n) of an int
RECURSIVE int_str(_)
int_str(n) ==
    IF n < 0 THEN <<45>> \o int_str(-n)
    ELSE IF n < 10 THEN <<48 + n>>
    ELSE int_str(n \div 10) \o <<48 + (n % 10)>>

\* 'None'
str_None ==
    <<78, 111, 110, 101>>

\* f"{v}" of a str or None
fmt_str(o) == IF o = None THEN str_None ELSE the(o)

\* f"{v}" of an int or None
fmt_int(o) == IF o = None THEN str_None ELSE int_str(the(o))

\* sep.join(parts)
RECURSIVE join(_, _)
join(sep, parts) ==
    IF parts = <<>> THEN <<>>
    ELSE IF Len(parts) = 1 THEN parts[1]
    ELSE parts[1] \o sep \o join(sep, Tail(parts))

-----------------------------------------------------------------------------
(* Build, the report row *)

Build(name, url, commit, branch, status) ==
    [name |-> name, url |-> url, commit |-> commit, branch |-> branch, status |-> status]

-----------------------------------------------------------------------------
(* builds_to_csv *)

\* 'Branch'
hdr_Branch ==
    <<66, 114, 97, 110, 99, 104>>

\* 'Build'
hdr_Build ==
    <<66, 117, 105, 108, 100>>

\* 'Commit'
hdr_Commit ==
    <<67, 111, 109, 109, 105, 116>>

\* 'Status'
hdr_Status ==
    <<83, 116, 97, 116, 117, 115>>

\* 'URL'
hdr_URL ==
    <<85, 82, 76>>

\* csv.writer, QUOTE_MINIMAL: a field holding the delimiter, the quote character
\* or a character of the line terminator is quoted
csv_needs_quotes(f) == \E i \in 1..Len(f) : f[i] \in {44, 34, 13, 10}

\* doublequote: every quote character inside a field is written twice
RECURSIVE csv_double_quotes(_)
csv_double_quotes(f) ==
    IF f = <<>> THEN <<>>
    ELSE (IF f[1] = 34 THEN <<34, 34>> ELSE <<f[1]>>) \o csv_double_quotes(Tail(f))

\* a csv_field that never quotes
csv_field_unquoted(o) == IF o = None THEN <<>> ELSE the(o)

\* csv.writer writes None as the empty field and a str as it is
csv_field(o) ==
    LET f == IF o = None THEN <<>> ELSE the(o)
    IN  IF csv_needs_quotes(f) THEN <<34>> \o csv_double_quotes(f) \o <<34>> ELSE f

\* writer.writerow: the fields joined by "," and ended by "\r\n"
writerow(fields) ==
    join(<<44>>, [i \in 1..Len(fields) |-> csv_field(fields[i])]) \o <<13, 10>>

csv_row(b) == <<Some(b.branch), Some(b.name), Some(b.commit), b.status, Some(b.url)>>

csv_header == <<Some(hdr_Branch), Some(hdr_Build), Some(hdr_Commit), Some(hdr_Status), Some(hdr_URL)>>

RECURSIVE csv_rows(_)
csv_rows(builds) ==
    IF builds = <<>> THEN <<>>
    ELSE writerow(csv_row(Head(builds))) \o csv_rows(Tail(builds))

builds_to_csv(builds) == writerow(csv_header) \o csv_rows(builds)

-----------------------------------------------------------------------------
(* builds_to_html_table *)

\* "<hr style='border:none;border-top:1px solid #ccc;margin:20px 0;'>"
separator ==
    <<60, 104, 114, 32, 115, 116, 121, 108, 101, 61, 39, 98, 111, 114, 100, 101, 114, 58,
    110, 111, 110, 101, 59, 98, 111, 114, 100, 101, 114, 45, 116, 111, 112, 58, 49, 112,
    120, 32, 115, 111, 108, 105, 100, 32, 35, 99, 99, 99, 59, 109, 97, 114, 103, 105, 110,
    58, 50, 48, 112, 120, 32, 48, 59, 39, 62>>

\* '<h3>Branch: '
h3_open ==
    <<60, 104, 51, 62, 66, 114, 97, 110, 99, 104, 58, 32>>

\* '</h3>'
h3_close ==
    <<60, 47, 104, 51, 62>>

\* '<tr><th>Build</th><th>Commit</th><th>Status</th></tr>'
table_header_row ==
    <<60, 116, 114, 62, 60, 116, 104, 62, 66, 117, 105, 108, 100, 60, 47, 116, 104, 62, 60,
    116, 104, 62, 67, 111, 109, 109, 105, 116, 60, 47, 116, 104, 62, 60, 116, 104, 62, 83,
    116, 97, 116, 117, 115, 60, 47, 116, 104, 62, 60, 47, 116, 114, 62>>

\* '<a href="'
a_open ==
    <<60, 97, 32, 104, 114, 101, 102, 61, 34>>

\* '">'
a_mid ==
    <<34, 62>>

\* '</a>'
a_close ==
    <<60, 47, 97, 62>>

\* '<tr>'
tr_open ==
    <<60, 116, 114, 62>>

\* '</tr>'
tr_close ==
    <<60, 47, 116, 114, 62>>

\* '<td>'
td_open ==
    <<60, 116, 100, 62>>

\* '</td>'
td_close ==
    <<60, 47, 116, 100, 62>>

\* "<table border='1' cellpadding='4' cellspacing='0' style='border-collapse:collapse'>"
table_open ==
    <<60, 116, 97, 98, 108, 101, 32, 98, 111, 114, 100, 101, 114, 61, 39, 49, 39, 32, 99,
    101, 108, 108, 112, 97, 100, 100, 105, 110, 103, 61, 39, 52, 39, 32, 99, 101, 108, 108,
    115, 112, 97, 99, 105, 110, 103, 61, 39, 48, 39, 32, 115, 116, 121, 108, 101, 61, 39,
    98, 111, 114, 100, 101, 114, 45, 99, 111, 108, 108, 97, 112, 115, 101, 58, 99, 111,
    108, 108, 97, 112, 115, 101, 39, 62>>

\* '</table>'
table_close ==
    <<60, 47, 116, 97, 98, 108, 101, 62>>

\* grouped[b.branch].append(b) on the defaultdict: a new key goes last, an
\* existing key keeps its place and gets the row appended
RECURSIVE group_append(_, _)
group_append(grouped, b) ==
    IF grouped = <<>> THEN <<[branch |-> b.branch, rows |-> <<b>>]>>
    ELSE IF Head(grouped).branch = b.branch
         THEN <<[branch |-> b.branch, rows |-> Append(Head(grouped).rows, b)]>> \o Tail(grouped)
         ELSE <<Head(grouped)>> \o group_append(Tail(grouped), b)

\* the defaultdict after the grouping loop, as its items in insertion order
RECURSIVE group_by_branch(_, _)
group_by_branch(grouped, builds) ==
    IF builds = <<>> THEN grouped
    ELSE group_by_branch(group_append(grouped, Head(builds)), Tail(builds))

\* one insertion of sorted(..., reverse=True): before the first smaller key
RECURSIVE insert_desc(_, _)
insert_desc(sorted, k) ==
    IF sorted = <<>> THEN <<k>>
    ELSE IF str_lt(Head(sorted), k) THEN <<k>> \o sorted
    ELSE <<Head(sorted)>> \o insert_desc(Tail(sorted), k)

\* sorted(grouped.keys(), reverse=True)
RECURSIVE sorted_reverse(_, _)
sorted_reverse(sorted, keys) ==
    IF keys = <<>> THEN sorted
    ELSE sorted_reverse(insert_desc(sorted, Head(keys)), Tail(keys))

\* an insert_by_name whose key is b.name, without lower()
RECURSIVE insert_by_name_case_sensitive(_, _)
insert_by_name_case_sensitive(sorted, b) ==
    IF sorted = <<>> THEN <<b>>
    ELSE IF str_lt(b.name, Head(sorted).name) THEN <<b>> \o sorted
    ELSE <<Head(sorted)>> \o insert_by_name_case_sensitive(Tail(sorted), b)

\* one insertion of the stable sorted(..., key=lambda b: b.name.lower()):
\* before the first row whose key is greater
RECURSIVE insert_by_name(_, _)
insert_by_name(sorted, b) ==
    IF sorted = <<>> THEN <<b>>
    ELSE IF str_lt(lower(b.name), lower(Head(sorted).name)) THEN <<b>> \o sorted
    ELSE <<Head(sorted)>> \o insert_by_name(Tail(sorted), b)

\* sorted(builds_in_branch, key=lambda b: b.name.lower())
RECURSIVE sorted_by_name(_, _)
sorted_by_name(sorted, rows) ==
    IF rows = <<>> THEN sorted
    ELSE sorted_by_name(insert_by_name(sorted, Head(rows)), Tail(rows))

\* grouped[branch]
rows_of(grouped, branch) ==
    LET i == CHOOSE j \in 1..Len(grouped) : grouped[j].branch = branch
    IN  grouped[i].rows

\* the sections the loop over the sorted branches visits, each with the rows
\* it renders, in rendering order
html_sections(builds) ==
    LET grouped == group_by_branch(<<>>, builds)
        keys == sorted_reverse(<<>>, [i \in 1..Len(grouped) |-> grouped[i].branch])
    IN  [i \in 1..Len(keys) |->
            [branch |-> keys[i],
             rows |-> sorted_by_name(<<>>, rows_of(grouped, keys[i]))]]

\* one <tr> of a table
html_row(b) ==
    tr_open
    \o td_open \o a_open \o b.url \o a_mid \o b.name \o a_close \o td_close
    \o td_open \o b.commit \o td_close
    \o td_open \o fmt_str(b.status) \o td_close
    \o tr_close

\* the four html_parts of one branch
section_parts(s) ==
    << h3_open \o s.branch \o h3_close,
       separator,
       table_open
         \o join(<<>>, <<table_header_row>> \o [i \in 1..Len(s.rows) |-> html_row(s.rows[i])])
         \o table_close,
       separator >>

RECURSIVE html_parts(_)
html_parts(sections) ==
    IF sections = <<>> THEN <<>>
    ELSE section_parts(Head(sections)) \o html_parts(Tail(sections))

builds_to_html_table(builds) == join(<<10>>, html_parts(html_sections(builds)))

-----------------------------------------------------------------------------
(* join_builders_with_change *)

\* '#/builders/'
url_builders_frag ==
    <<35, 47, 98, 117, 105, 108, 100, 101, 114, 115, 47>>

\* '/builds/'
url_builds_frag ==
    <<47, 98, 117, 105, 108, 100, 115, 47>>

\* a build_map that keeps the first record of a builderid (setdefault)
RECURSIVE build_map_first_wins(_, _)
build_map_first_wins(m, builds) ==
    IF builds = <<>> THEN m
    ELSE LET b == Head(builds)
             m1 == [k \in DOMAIN m \cup {b.builderid} |->
                        IF k \in DOMAIN m THEN m[k] ELSE b]
         IN  build_map_first_wins(m1, Tail(builds))

\* {b["builderid"]: b for b in builds}: a later record replaces an earlier one
\* of the same builderid
RECURSIVE build_map(_, _)
build_map(m, builds) ==
    IF builds = <<>> THEN m
    ELSE LET b == Head(builds)
             m1 == [k \in DOMAIN m \cup {b.builderid} |->
                        IF k = b.builderid THEN b ELSE m[k]]
         IN  build_map(m1, Tail(builds))

\* build_map.get(builderid)
map_get(m, k) == IF k \in DOMAIN m THEN Some(m[k]) ELSE None

\* the url of the row
detail_url(buildbot_url, builderid, number) ==
    buildbot_url \o url_builders_frag \o int_str(builderid)
                 \o url_builds_frag \o fmt_int(number)

\* a join_loop that leaves the loop at the first builder without a build
\* (break for continue)
RECURSIVE join_loop_break(_, _, _, _, _)
join_loop_break(roster, m, branch, revision, buildbot_url) ==
    IF roster = <<>> THEN <<>>
    ELSE LET builder == Head(roster)
             build_data == map_get(m, builder.builderid)
         IN  IF build_data # None
             THEN <<Build(builder.name,
                          detail_url(buildbot_url, builder.builderid, the(build_data).number),
                          revision,
                          branch,
                          the(build_data).state_string)>>
                  \o join_loop_break(Tail(roster), m, branch, revision, buildbot_url)
             ELSE <<>>

\* the body of the loop over the builders
RECURSIVE join_loop(_, _, _, _, _)
join_loop(roster, m, branch, revision, buildbot_url) ==
    IF roster = <<>> THEN <<>>
    ELSE LET builder == Head(roster)
             build_data == map_get(m, builder.builderid)
             rest == join_loop(Tail(roster), m, branch, revision, buildbot_url)
         IN  IF build_data # None
             THEN <<Build(builder.name,
                          detail_url(buildbot_url, builder.builderid, the(build_data).number),
                          revision,
                          branch,
                          the(build_data).state_string)>> \o rest
             ELSE rest

join_builders_with_change(roster, builds, branch, revision, buildbot_url) ==
    join_loop(roster, build_map(<<>>, builds), branch, revision, buildbot_url)

-----------------------------------------------------------------------------
(* the failure classification of __main__ *)

\* 'acquiring locks'
st_acquiring_locks ==
    <<97, 99, 113, 117, 105, 114, 105, 110, 103, 32, 108, 111, 99, 107, 115>>

\* 'building'
st_building ==
    <<98, 117, 105, 108, 100, 105, 110, 103>>

\* 'build successful'
st_build_successful ==
    <<98, 117, 105, 108, 100, 32, 115, 117, 99, 99, 101, 115, 115, 102, 117, 108>>

\* 'preparing worker'
st_preparing_worker ==
    <<112, 114, 101, 112, 97, 114, 105, 110, 103, 32, 119, 111, 114, 107, 101, 114>>

not_failed_markers ==
    {st_acquiring_locks, st_building, st_build_successful, st_preparing_worker}

\* an is_failed that compares the status as it is, without lower()
is_failed_case_sensitive(b) == the(b.status) \notin not_failed_markers

\* b.status.lower() not in [...], for a row whose status is a str
is_failed(b) == lower(the(b.status)) \notin not_failed_markers

RECURSIVE select_failed(_)
select_failed(rows) ==
    IF rows = <<>> THEN <<>>
    ELSE (IF is_failed(Head(rows)) THEN <<Head(rows)>> ELSE <<>>) \o select_failed(Tail(rows))

\* the list comprehension: None has no lower(), so the first row without a
\* status raises AttributeError and no list is built
classify(rows) ==
    IF \E i \in 1..Len(rows) : rows[i].status = None
    THEN Raise("AttributeError")
    ELSE Return(select_failed(rows))

-----------------------------------------------------------------------------
(* the environment of a run: the values __main__ reads with os.getenv *)

SUBJECT == "Failed builds"

SENDER == "failman@example.org"

RECIPIENT_EMAIL == "dev@example.org"

SMTP_RELAY_SERVER == "smtp-relay.example.org"

\* int(os.getenv("SMTP_RELAY_PORT"))
SMTP_RELAY_PORT == 465

\* 'http://bb/'
BASE_BUILDBOT_URL ==
    <<104, 116, 116, 112, 58, 47, 47, 98, 98, 47>>

\* 'api/v2'
api_suffix ==
    <<97, 112, 105, 47, 118, 50>>

\* '/builders'
path_builders ==
    <<47, 98, 117, 105, 108, 100, 101, 114, 115>>

\* '/changes?branch='
path_changes ==
    <<47, 99, 104, 97, 110, 103, 101, 115, 63, 98, 114, 97, 110, 99, 104, 61>>

\* '&limit=1&order=-changeid'
query_tail ==
    <<38, 108, 105, 109, 105, 116, 61, 49, 38, 111, 114, 100, 101, 114, 61, 45, 99, 104,
    97, 110, 103, 101, 105, 100>>

\* api_url = buildbot_url + "api/v2"
api_url == BASE_BUILDBOT_URL \o api_suffix

-----------------------------------------------------------------------------
(* the values the external collaborators may answer with *)

\* 'main'
br_main ==
    <<109, 97, 105, 110>>

\* 'dev'
br_dev ==
    <<100, 101, 118>>

\* 'Main'
br_Main ==
    <<77, 97, 105, 110>>

\* 'b'
nm_b ==
    <<98>>

\* 'A'
nm_A ==
    <<65>>

\* 'a'
nm_a ==
    <<97>>

\* 'C'
nm_C ==
    <<67>>

\* 'zz'
nm_zz ==
    <<122, 122>>

\* 'a,b'
nm_comma ==
    <<97, 44, 98>>

\* 'q"t'
nm_quote ==
    <<113, 34, 116>>

\* 'l\\r\\nf'
nm_lines ==
    <<108, 13, 10, 102>>

\* 'abc'
rev_abc ==
    <<97, 98, 99>>

\* 'def'
rev_def ==
    <<100, 101, 102>>

\* 'failed'
st_failed ==
    <<102, 97, 105, 108, 101, 100>>

\* 'exception'
st_exception ==
    <<101, 120, 99, 101, 112, 116, 105, 111, 110>>

\* 'timed out'
st_timed_out ==
    <<116, 105, 109, 101, 100, 32, 111, 117, 116>>

\* ''
st_empty ==
    <<>>

\* 'Build Successful'
st_Build_Successful ==
    <<66, 117, 105, 108, 100, 32, 83, 117, 99, 99, 101, 115, 115, 102, 117, 108>>

\* 'BUILDING'
st_BUILDING ==
    <<66, 85, 73, 76, 68, 73, 78, 71>>

\* 'Acquiring Locks'
st_Acquiring_Locks ==
    <<65, 99, 113, 117, 105, 114, 105, 110, 103, 32, 76, 111, 99, 107, 115>>

\* 'PREPARING WORKER'
st_PREPARING_WORKER ==
    <<80, 82, 69, 80, 65, 82, 73, 78, 71, 32, 87, 79, 82, 75, 69, 82>>

\* 'building...'
st_building_dots ==
    <<98, 117, 105, 108, 100, 105, 110, 103, 46, 46, 46>>

\* 'build success'
st_build_success ==
    <<98, 117, 105, 108, 100, 32, 115, 117, 99, 99, 101, 115, 115>>

\* 'successful'
st_successful ==
    <<115, 117, 99, 99, 101, 115, 115, 102, 117, 108>>

\* 'ACQUIRING LOC\u212aS', with the Kelvin sign for K
st_ACQUIRING_LOCKS_kelvin ==
    <<65, 67, 81, 85, 73, 82, 73, 78, 71, 32, 76, 79, 67, 8490, 83>>

\* 'BUILD\u0130NG', with the dotted capital I
st_BUILDING_dotted ==
    <<66, 85, 73, 76, 68, 304, 78, 71>>

\* '\xc9', the capital E with acute
nm_E_acute ==
    <<201>>

\* '\xe1', the small a with acute
nm_a_acute ==
    <<225>>

\* 'X'
st_X ==
    <<88>>

\* an element of the "builders" list of GET /builders
Builder(id, name) == [builderid |-> id, name |-> name]

\* an element of the "builds" list of a change; number and state_string are
\* read with .get and may be missing
BuildRecord(id, number, state_string) ==
    [builderid |-> id, number |-> number, state_string |-> state_string]

\* an element of the "changes" list of GET /changes
Change(branch, revision, builds) ==
    [sourcestamp |-> [branch |-> branch, revision |-> revision], builds |-> builds]

\* a change of unexpected shape: no "builds" key
ChangeWithoutBuilds(branch, revision) ==
    [sourcestamp |-> [branch |-> branch, revision |-> revision]]

\* what requests.get meets: no connection, or a response with a status code
\* and a body that is JSON (Some(data)) or not (None)
Unreachable == [kind |-> "unreachable"]

Response(status, body) == [kind |-> "response", status |-> status, body |-> body]

\* what open meets: no file at the path, or a file whose text is YAML
\* (Some(data)) or not (None)
NoFile == [kind |-> "nofile"]

File(body) == [kind |-> "file", body |-> body]

\* a JSON body without the key the caller reads
ErrorBody == [error |-> "internal error"]

\* all sequences over S of length at most n
SeqsUpTo(S, n) == UNION {[1..k -> S] : k \in 0..n}

-----------------------------------------------------------------------------
(* the external collaborators, as failman calls them *)

\* str.startswith
startswith(s, prefix) ==
    Len(s) >= Len(prefix) /\ SubSeq(s, 1, Len(prefix)) = prefix

\* 'http://'
scheme_http ==
    <<104, 116, 116, 112, 58, 47, 47>>

\* 'https://'
scheme_https ==
    <<104, 116, 116, 112, 115, 58, 47, 47>>

\* load_config: a location that starts with http:// or https:// is fetched
\* (requests.get, raise_for_status, yaml.safe_load of the text); any other
\* location is opened as a local file and parsed
load_config(config_path_or_url, answer) ==
    IF startswith(config_path_or_url, scheme_http)
           \/ startswith(config_path_or_url, scheme_https)
    THEN IF answer.kind = "unreachable" THEN Raise("ConnectionError")
         ELSE IF answer.status >= 400 THEN Raise("HTTPError")
         ELSE IF answer.body = None THEN Raise("YAMLError")
         ELSE Return(the(answer.body))
    ELSE IF answer.kind = "nofile" THEN Raise("FileNotFoundError")
         ELSE IF answer.body = None THEN Raise("YAMLError")
         ELSE Return(the(answer.body))

\* f"{api_url}/builders"
builders_url == api_url \o path_builders

\* f"{api_url}/changes?branch={branch}&limit=1&order=-changeid"
changes_url(branch) == api_url \o path_changes \o branch \o query_tail

\* requests.get(url), response.json(), data.get("builders", []): the status
\* code is not looked at, and a body without the key gives []
get_builders_details(answer) ==
    IF answer.kind = "unreachable" THEN Raise("ConnectionError")
    ELSE IF answer.body = None THEN Raise("JSONDecodeError")
    ELSE LET data == the(answer.body)
         IN  Return(IF "builders" \in DOMAIN data THEN data["builders"] ELSE <<>>)

\* requests.get(url), response.json(), data.get("changes", [])
get_latest_builds_on_branch(answer) ==
    IF answer.kind = "unreachable" THEN Raise("ConnectionError")
    ELSE IF answer.body = None THEN Raise("JSONDecodeError")
    ELSE LET data == the(answer.body)
         IN  Return(IF "changes" \in DOMAIN data THEN data["changes"] ELSE <<>>)

\* the message send_email_with_csv composes: the headers, the HTML body part
\* and the attachment part (before the MIME serialisation of as_string)
mime_message(sender_email, recipient_email, subject, html_body, csv_content) ==
    [From |-> sender_email, To |-> recipient_email, Subject |-> subject,
     body |-> [subtype |-> "html", charset |-> "utf-8", text |-> html_body],
     attachment |-> [filename |-> "builds_report.csv", transfer |-> "base64",
                     payload |-> csv_content]]

\* smtplib.SMTP_SSL(smtp_relay, smtp_port) has connected: the relay was
\* reached and greeted, so that smtp.sendmail is called
smtp_connected(relay_answer) == relay_answer \in {"accepted", "refused"}

\* send_email_with_csv: the message is composed, then SMTP_SSL connects to the
\* relay, then sendmail. A relay that cannot be reached raises
\* ConnectionRefusedError (an OSError) and one that refuses at the greeting
\* raises SMTPConnectError, both before any sendmail; a relay that refuses the
\* recipient raises SMTPRecipientsRefused out of sendmail
send_email_with_csv(sender_email, recipient_email, subject, html_body, csv_content, relay_answer) ==
    IF relay_answer = "unreachable" THEN Raise("ConnectionRefusedError")
    ELSE IF relay_answer = "rejected" THEN Raise("SMTPConnectError")
    ELSE IF relay_answer = "refused" THEN Raise("SMTPRecipientsRefused")
    ELSE Return(None)

-----------------------------------------------------------------------------
(* the entries of the call log *)

\* the requests.get or the open of load_config
ConfigCall(location, answer) ==
    [op |-> "load_config", location |-> location, answer |-> answer]

GetCall(url, answer) == [op |-> "GET", url |-> url, answer |-> answer]

\* smtplib.SMTP_SSL(smtp_relay, smtp_port)
ConnectCall(smtp_relay, smtp_port, relay_answer) ==
    [op |-> "smtp_connect", relay |-> smtp_relay, port |-> smtp_port,
     answer |-> IF smtp_connected(relay_answer) THEN "connected" ELSE relay_answer]

\* smtp.sendmail(sender_email, recipient_email, msg.as_string())
MailCall(msg, relay_answer) ==
    [op |-> "sendmail", From |-> msg.From, To |-> msg.To, msg |-> msg,
     answer |-> relay_answer]

\* the calls send_email_with_csv makes on the relay: the connection, and the
\* sendmail when the connection stands
smtp_calls(msg, smtp_relay, smtp_port, relay_answer) ==
    <<ConnectCall(smtp_relay, smtp_port, relay_answer)>>
        \o (IF smtp_connected(relay_answer) THEN <<MailCall(msg, relay_answer)>> ELSE <<>>)

-----------------------------------------------------------------------------
(* the answers a run may meet *)

\* the longest "branches" list of a configuration
MaxBranches == 2

BranchNames == {br_main, br_dev}

\* absent (or null), empty, a list naming one roster builder and a stranger,
\* and a list naming two roster builders in another order than the rosters'
BuilderFilters == {None, Some(<<>>), Some(<<nm_A, nm_zz>>), Some(<<nm_A, nm_b>>)}

Configs ==
    {[configuration |-> [branches |-> bs, builder_filter |-> f]] :
        bs \in SeqsUpTo(BranchNames, MaxBranches), f \in BuilderFilters}

\* '/opt/failman'
SCRIPT_DIR ==
    <<47, 111, 112, 116, 47, 102, 97, 105, 108, 109, 97, 110>>

\* 'config.yaml'
config_yaml ==
    <<99, 111, 110, 102, 105, 103, 46, 121, 97, 109, 108>>

\* 'https://cfg/failman.yaml'
url_config_https ==
    <<104, 116, 116, 112, 115, 58, 47, 47, 99, 102, 103, 47, 102, 97, 105, 108, 109, 97,
    110, 46, 121, 97, 109, 108>>

\* 'http://cfg/failman.yaml'
url_config_http ==
    <<104, 116, 116, 112, 58, 47, 47, 99, 102, 103, 47, 102, 97, 105, 108, 109, 97, 110,
    46, 121, 97, 109, 108>>

\* os.path.join(SCRIPT_DIR, "config.yaml")
default_config_path == SCRIPT_DIR \o <<47>> \o config_yaml

\* the environment variable CONFIG_URL: unset, or a URL of either scheme
ConfigUrls == {None, Some(url_config_https), Some(url_config_http)}

\* os.getenv("CONFIG_URL", default_config_path)
config_location(CONFIG_URL) ==
    IF CONFIG_URL = None THEN default_config_path ELSE the(CONFIG_URL)

\* what the fetch of a URL may meet
ConfigHttpAnswers ==
    {Unreachable, Response(500, None), Response(200, None)}
        \cup {Response(200, Some(c)) : c \in Configs}

\* what the open of a local path may meet
ConfigFileAnswers ==
    {NoFile, File(None)} \cup {File(Some(c)) : c \in Configs}

\* what load_config may meet at a location
ConfigAnswers(location) ==
    IF startswith(location, scheme_http) \/ startswith(location, scheme_https)
    THEN ConfigHttpAnswers
    ELSE ConfigFileAnswers

\* the same two builders in both orders, once with a third between them that
\* no build record names
Rosters ==
    { <<Builder(2, nm_A), Builder(1, nm_b)>>,
      <<Builder(1, nm_b), Builder(4, nm_C), Builder(2, nm_A)>> }

RosterAnswers ==
    {Unreachable, Response(200, None), Response(500, Some(ErrorBody)),
     Response(200, Some(ErrorBody))}
        \cup {Response(200, Some([builders |-> r])) : r \in Rosters}

\* the "builds" lists of a change: one failure and one success; a duplicate
\* and a build of an unknown builder; a build without state_string; all
\* healthy; none
RunBuildLists ==
    { <<BuildRecord(1, Some(7), Some(st_failed)),
        BuildRecord(2, Some(9), Some(st_Build_Successful))>>,
      <<BuildRecord(1, Some(8), Some(st_building)),
        BuildRecord(1, Some(7), Some(st_timed_out)),
        BuildRecord(3, Some(5), Some(st_failed))>>,
      <<BuildRecord(2, Some(9), None)>>,
      <<BuildRecord(1, Some(8), Some(st_Build_Successful))>>,
      <<>> }

\* an older change, as a server that ignores limit=1 would add
OlderChange(branch) ==
    Change(branch, rev_def, <<BuildRecord(2, Some(3), Some(st_exception))>>)

\* a change whose sourcestamp names the branch in another spelling than the
\* configuration
RenamedChange ==
    Change(br_Main, rev_def, <<BuildRecord(2, Some(4), Some(st_exception))>>)

ChangeAnswers(branch) ==
    {Unreachable, Response(200, None), Response(500, Some(ErrorBody)),
     Response(200, Some([changes |-> <<>>])),
     Response(200, Some([changes |-> <<ChangeWithoutBuilds(branch, rev_abc)>>]))}
        \cup {Response(200, Some([changes |-> <<Change(branch, rev_abc, l)>>])) :
                 l \in RunBuildLists}
        \cup {Response(200, Some([changes |->
                 <<Change(branch, rev_abc, l), OlderChange(branch)>>])) :
                 l \in {<<BuildRecord(1, Some(7), Some(st_failed))>>}}
        \cup {Response(200, Some([changes |-> <<RenamedChange>>]))}

\* the relay cannot be reached, refuses at the greeting, refuses the
\* recipient, or accepts the message
RelayAnswers == {"unreachable", "rejected", "refused", "accepted"}

-----------------------------------------------------------------------------
(* __main__ *)

HarnessOff == h_pc = "off" /\ h_fn = "none" /\ h_args = <<>> /\ h_ret = <<>>

Init ==
    /\ pc = "load_config"
    /\ config = None
    /\ builders = <<>>
    /\ branch_idx = 1
    /\ BUILDS = <<>>
    /\ failed_builds = None
    /\ calls = <<>>
    /\ stdout = <<>>
    /\ exc = None
    /\ HarnessOff

\* the process runs until it ends or an exception nobody catches ends it
Running == exc = None /\ pc # "done"

\* config_location = os.getenv("CONFIG_URL", default_config_path);
\* config = load_config(config_location)
LoadConfig ==
    /\ Running
    /\ pc = "load_config"
    /\ \E CONFIG_URL \in ConfigUrls :
       \E answer \in ConfigAnswers(config_location(CONFIG_URL)) :
         LET location == config_location(CONFIG_URL)
             r == load_config(location, answer)
         IN  /\ calls' = Append(calls, ConfigCall(location, answer))
             /\ IF r.ok
                THEN config' = Some(r.val) /\ pc' = "get_builders" /\ exc' = exc
                ELSE config' = config /\ pc' = pc /\ exc' = Some(r.exc)
    /\ UNCHANGED <<builders, branch_idx, BUILDS, failed_builds, stdout>>
    /\ UNCHANGED harness_vars

\* BUILDS = []; builders = get_builders_details(api_url)
GetBuilders ==
    /\ Running
    /\ pc = "get_builders"
    /\ \E answer \in RosterAnswers :
         LET r == get_builders_details(answer)
         IN  /\ calls' = Append(calls, GetCall(builders_url, answer))
             /\ IF r.ok
                THEN builders' = r.val /\ pc' = "filter" /\ exc' = exc
                ELSE builders' = builders /\ pc' = pc /\ exc' = Some(r.exc)
    /\ BUILDS' = <<>>
    /\ UNCHANGED <<config, branch_idx, failed_builds, stdout>>
    /\ UNCHANGED harness_vars

\* set(config["configuration"].get("builder_filter") or [])
filtered_builders(cfg) ==
    LET f == cfg.configuration.builder_filter
    IN  IF f = None THEN {} ELSE {the(f)[i] : i \in 1..Len(the(f))}

\* the roster builders a list of names selects, in the order of the list
RECURSIVE builders_named(_, _)
builders_named(roster, names) ==
    IF names = <<>> THEN <<>>
    ELSE LET named(b) == b.name = Head(names)
         IN  SelectSeq(roster, named) \o builders_named(roster, Tail(names))

\* a filter_builders that walks builder_filter instead of the roster: the
\* builders kept come in the order of the filter
filter_builders_in_filter_order(roster, cfg) ==
    IF filtered_builders(cfg) = {} THEN roster
    ELSE builders_named(roster, the(cfg.configuration.builder_filter))

\* [builder for builder in builders
\*    if not filtered_builders or builder["name"] in filtered_builders]
filter_builders(roster, cfg) ==
    LET keep(b) == filtered_builders(cfg) = {} \/ b.name \in filtered_builders(cfg)
    IN  SelectSeq(roster, keep)

FilterBuilders ==
    /\ Running
    /\ pc = "filter"
    /\ builders' = filter_builders(builders, the(config))
    /\ branch_idx' = 1
    /\ pc' = "loop"
    /\ UNCHANGED <<config, BUILDS, failed_builds, calls, stdout, exc>>
    /\ UNCHANGED harness_vars

\* config["configuration"]["branches"]
branches == the(config).configuration.branches

\* a branch_rows that reads the last change of the list, changes[-1]
branch_rows_last_change(roster, changes) ==
    IF changes = <<>> THEN Return(<<>>)
    ELSE LET last == changes[Len(changes)]
         IN  IF "builds" \notin DOMAIN last THEN Raise("KeyError")
             ELSE Return(join_builders_with_change(roster,
                                                   last.builds,
                                                   last.sourcestamp.branch,
                                                   last.sourcestamp.revision,
                                                   BASE_BUILDBOT_URL))

\* the body of the for loop on one branch, given the changes fetched: the
\* rows to extend BUILDS with, or the KeyError of a change without "builds"
branch_rows(roster, changes) ==
    IF changes = <<>> THEN Return(<<>>)
    ELSE IF "builds" \notin DOMAIN changes[1] THEN Raise("KeyError")
    ELSE Return(join_builders_with_change(roster,
                                          changes[1].builds,
                                          changes[1].sourcestamp.branch,
                                          changes[1].sourcestamp.revision,
                                          BASE_BUILDBOT_URL))

\* one iteration of: for branch in config["configuration"]["branches"]
FetchBranch ==
    /\ Running
    /\ pc = "loop"
    /\ branch_idx <= Len(branches)
    /\ LET branch == branches[branch_idx]
       IN  \E answer \in ChangeAnswers(branch) :
             LET r == get_latest_builds_on_branch(answer)
                 rows == IF r.ok THEN branch_rows(builders, r.val) ELSE r
             IN  /\ calls' = Append(calls, GetCall(changes_url(branch), answer))
                 /\ IF rows.ok
                    THEN /\ BUILDS' = BUILDS \o rows.val
                         /\ branch_idx' = branch_idx + 1
                         /\ exc' = exc
                    ELSE /\ UNCHANGED <<BUILDS, branch_idx>>
                         /\ exc' = Some(rows.exc)
    /\ UNCHANGED <<pc, config, builders, failed_builds, stdout>>
    /\ UNCHANGED harness_vars

\* failed_builds = [b for b in BUILDS if b.status.lower() not in [...]]
Classify ==
    /\ Running
    /\ pc = "loop"
    /\ branch_idx > Len(branches)
    /\ LET r == classify(BUILDS)
       IN  IF r.ok
           THEN failed_builds' = Some(r.val) /\ pc' = "report" /\ exc' = exc
           ELSE failed_builds' = failed_builds /\ pc' = "classify" /\ exc' = Some(r.exc)
    /\ UNCHANGED <<config, builders, branch_idx, BUILDS, calls, stdout>>
    /\ UNCHANGED harness_vars

\* if failed_builds: ... send_email_with_csv(...) else: print(...)
Report ==
    /\ Running
    /\ pc = "report"
    /\ IF the(failed_builds) # <<>>
       THEN LET html_content == builds_to_html_table(the(failed_builds))
                csv_content == builds_to_csv(the(failed_builds))
                msg == mime_message(SENDER, RECIPIENT_EMAIL, SUBJECT, html_content, csv_content)
            IN  \E relay_answer \in RelayAnswers :
                  LET r == send_email_with_csv(SENDER, RECIPIENT_EMAIL, SUBJECT,
                                               html_content, csv_content, relay_answer)
                  IN  /\ calls' = calls \o smtp_calls(msg, SMTP_RELAY_SERVER,
                                                      SMTP_RELAY_PORT, relay_answer)
                      /\ stdout' = stdout
                      /\ IF r.ok THEN pc' = "done" /\ exc' = exc
                                 ELSE pc' = pc /\ exc' = Some(r.exc)
       ELSE /\ stdout' = Append(stdout, "Grab a coffee and enjoy a bug free world!")
            /\ calls' = calls
            /\ pc' = "done"
            /\ exc' = exc
    /\ UNCHANGED <<config, builders, branch_idx, BUILDS, failed_builds>>
    /\ UNCHANGED harness_vars

Next == LoadConfig \/ GetBuilders \/ FilterBuilders \/ FetchBranch \/ Classify \/ Report

Spec == Init /\ [][Next]_vars

-----------------------------------------------------------------------------
(* the functions called on their own, on arguments drawn from bounded sets *)

\* the longest builder list passed to join_builders_with_change
MaxBuilders == 2

\* the longest build-record list passed to join_builders_with_change
MaxBuilds == 3

\* the longest row list passed to the classification and to the renderers
MaxRows == 3

\* two builders share an id, no builder has id 3
JoinBuilders == {Builder(1, nm_b), Builder(2, nm_A), Builder(1, nm_a)}

\* builders 1 and 2 have several records that differ in number and status,
\* one record lacks number and state_string, builder 3 is not in any roster
JoinBuildRecords ==
    { BuildRecord(1, Some(7), Some(st_failed)),
      BuildRecord(1, Some(42), Some(st_X)),
      BuildRecord(1, None, None),
      BuildRecord(2, Some(7), Some(st_building)),
      BuildRecord(2, Some(10), Some(st_failed)),
      BuildRecord(3, Some(7), Some(st_failed)) }

JoinArgs ==
    [builders : SeqsUpTo(JoinBuilders, MaxBuilders),
     builds : SeqsUpTo(JoinBuildRecords, MaxBuilds),
     branch : {br_main},
     revision : {rev_abc},
     buildbot_url : {BASE_BUILDBOT_URL}]

\* a row of builder nm_b on main, with the given status and url
RowWithStatus(status) ==
    Build(nm_b, detail_url(BASE_BUILDBOT_URL, 1, Some(7)), rev_abc, br_main, status)

\* the four markers, the four in other case, near misses, failures, the empty
\* status, two statuses with letters outside ASCII (one that lower-cases to a
\* marker, one that does not) and the missing status
ClassifyStatuses ==
    { Some(st_acquiring_locks), Some(st_building), Some(st_build_successful),
      Some(st_preparing_worker), Some(st_Build_Successful), Some(st_BUILDING),
      Some(st_Acquiring_Locks), Some(st_PREPARING_WORKER), Some(st_building_dots),
      Some(st_build_success), Some(st_successful), Some(st_failed),
      Some(st_exception), Some(st_timed_out), Some(st_empty),
      Some(st_ACQUIRING_LOCKS_kelvin), Some(st_BUILDING_dotted), None }

ClassifyArgs == SeqsUpTo({RowWithStatus(s) : s \in ClassifyStatuses}, MaxRows)

\* rows whose fields hold the delimiter, the quote character, a line break, or
\* nothing
CsvRows ==
    { Build(nm_b, detail_url(BASE_BUILDBOT_URL, 1, Some(7)), rev_abc, br_main, Some(st_failed)),
      Build(nm_A, detail_url(BASE_BUILDBOT_URL, 2, Some(9)), rev_def, br_dev, Some(st_timed_out)),
      Build(nm_comma, detail_url(BASE_BUILDBOT_URL, 3, None), rev_abc, br_main, None),
      Build(nm_quote, nm_comma, rev_def, br_dev, Some(st_empty)),
      Build(nm_lines, nm_quote, st_empty, nm_quote, Some(nm_lines)),
      Build(st_empty, st_empty, st_empty, st_empty, Some(st_empty)) }

CsvArgs == SeqsUpTo(CsvRows, MaxRows)

\* a failed row of a builder on a branch
RowOn(branch, name) ==
    Build(name, BASE_BUILDBOT_URL \o name, rev_abc, branch, Some(st_failed))

\* three branches, of which two differ in case only; names that differ in
\* case, two of them with letters outside ASCII
HtmlRows ==
    {RowOn(br, nm) : br \in {br_main, br_dev, br_Main}, nm \in {nm_b, nm_A}}
        \cup {RowOn(br_main, nm_C), RowOn(br_dev, nm_a),
              RowOn(br_main, nm_E_acute), RowOn(br_main, nm_a_acute)}

HtmlArgs == SeqsUpTo(HtmlRows, MaxRows)

RunOff ==
    /\ pc = "off"
    /\ config = None
    /\ builders = <<>>
    /\ branch_idx = 1
    /\ BUILDS = <<>>
    /\ failed_builds = None
    /\ calls = <<>>
    /\ stdout = <<>>
    /\ exc = None

FunctionsInit ==
    /\ RunOff
    /\ h_pc = "ready"
    /\ h_ret = <<>>
    /\ \/ h_fn = "join_builders_with_change" /\ h_args \in JoinArgs
       \/ h_fn = "classify" /\ h_args \in ClassifyArgs
       \/ h_fn = "builds_to_csv" /\ h_args \in CsvArgs
       \/ h_fn = "builds_to_html_table" /\ h_args \in HtmlArgs

CallJoin ==
    /\ h_pc = "ready"
    /\ h_fn = "join_builders_with_change"
    /\ h_ret' = join_builders_with_change(h_args.builders, h_args.builds, h_args.branch,
                                          h_args.revision, h_args.buildbot_url)
    /\ h_pc' = "returned"
    /\ UNCHANGED <<h_fn, h_args>>
    /\ UNCHANGED run_vars

CallClassify ==
    /\ h_pc = "ready"
    /\ h_fn = "classify"
    /\ h_ret' = classify(h_args)
    /\ h_pc' = "returned"
    /\ UNCHANGED <<h_fn, h_args>>
    /\ UNCHANGED run_vars

CallCsv ==
    /\ h_pc = "ready"
    /\ h_fn = "builds_to_csv"
    /\ h_ret' = builds_to_csv(h_args)
    /\ h_pc' = "returned"
    /\ UNCHANGED <<h_fn, h_args>>
    /\ UNCHANGED run_vars

CallHtml ==
    /\ h_pc = "ready"
    /\ h_fn = "builds_to_html_table"
    /\ h_ret' = builds_to_html_table(h_args)
    /\ h_pc' = "returned"
    /\ UNCHANGED <<h_fn, h_args>>
    /\ UNCHANGED run_vars

FunctionsNext == CallJoin \/ CallClassify \/ CallCsv \/ CallHtml

SpecFunctions == FunctionsInit /\ [][FunctionsNext]_vars

-----------------------------------------------------------------------------
(* properties of join_builders_with_change *)

JoinReturned == h_pc = "returned" /\ h_fn = "join_builders_with_change"

\* some record of the list is a build of the builder
HasBuild(builds, id) == \E i \in 1..Len(builds) : builds[i].builderid = id

\* some builder of the list has the id
HasBuilder(roster, id) == \E i \in 1..Len(roster) : roster[i].builderid = id

\* the builders that have a build, in roster order
Matched(roster, builds) ==
    LET has(b) == HasBuild(builds, b.builderid)
    IN  SelectSeq(roster, has)

\* the record of the builder that stands last in the list
LastBuild(builds, id) ==
    LET last == CHOOSE i \in 1..Len(builds) :
                    /\ builds[i].builderid = id
                    /\ \A j \in (i + 1)..Len(builds) : builds[j].builderid # id
    IN  builds[last]

IsPrefix(p, s) == Len(p) <= Len(s) /\ SubSeq(s, 1, Len(p)) = p

\* the url up to the build number
UrlStem(buildbot_url, id) ==
    buildbot_url \o url_builders_frag \o int_str(id) \o url_builds_frag

\* C1: join_builders_with_change returns a list (no error) that holds one row
\* per builder that has a build record of its builderid, in roster order,
\* and nothing else: a builder without a record and a record without a
\* builder give no row.
C1_RowIffMatchingBuild ==
    JoinReturned =>
        LET matched == Matched(h_args.builders, h_args.builds)
        IN  /\ Len(h_ret) = Len(matched)
            /\ \A k \in 1..Len(matched) :
                  /\ h_ret[k].name = matched[k].name
                  /\ IsPrefix(UrlStem(h_args.buildbot_url, matched[k].builderid), h_ret[k].url)

\* a call with a builder that has no record, a record that has no builder,
\* and a builder that has one and follows the builder without
C1_Witness ==
    /\ JoinReturned
    /\ Len(h_args.builders) = 2
    /\ ~HasBuild(h_args.builds, h_args.builders[1].builderid)
    /\ HasBuild(h_args.builds, h_args.builders[2].builderid)
    /\ \E i \in 1..Len(h_args.builds) :
           ~HasBuilder(h_args.builders, h_args.builds[i].builderid)
    /\ Len(h_ret) = 1
    /\ h_ret[1].name = h_args.builders[2].name

\* C2: with several records of one builderid, the row of that builder has the
\* status and, in its url, the build number of the record that stands last.
C2_LastRecordWins ==
    JoinReturned =>
        LET matched == Matched(h_args.builders, h_args.builds)
        IN  \A k \in 1..Len(h_ret) :
                LET last == LastBuild(h_args.builds, matched[k].builderid)
                IN  /\ h_ret[k].status = last.state_string
                    /\ h_ret[k].url = UrlStem(h_args.buildbot_url, matched[k].builderid)
                                          \o fmt_int(last.number)

\* three records of one builder that differ in status and number, and its row
C2_Witness ==
    /\ JoinReturned
    /\ Len(h_args.builds) = 3
    /\ \A i \in 1..3 : h_args.builds[i].builderid = h_args.builds[1].builderid
    /\ h_args.builds[1].state_string # h_args.builds[3].state_string
    /\ h_args.builds[2].state_string # h_args.builds[3].state_string
    /\ h_args.builds[1].number # h_args.builds[3].number
    /\ h_args.builds[2].number # h_args.builds[3].number
    /\ Len(h_ret) >= 1
    /\ h_ret[1].status = h_args.builds[3].state_string

-----------------------------------------------------------------------------
(* properties of the failure classification *)

ClassifyReturned == h_pc = "returned" /\ h_fn = "classify"

\* a is the marker b in some case: code point by code point the letter of
\* the marker, its capital, or the Kelvin sign U+212A where the marker has k
\* (the one code point outside ASCII whose lower case is an ASCII letter)
SameIgnoringCase(a, b) ==
    /\ Len(a) = Len(b)
    /\ \A i \in 1..Len(a) :
          \/ a[i] = b[i]
          \/ a[i] \in 65..90 /\ b[i] = a[i] + 32
          \/ a[i] = 8490 /\ b[i] = 107

\* the status is one of the four markers, in any case
IsMarker(status) == \E m \in not_failed_markers : SameIgnoringCase(status, m)

\* C3: when the classification builds its list, the list is the rows whose
\* status is none of the four markers in any case, in the order of the rows.
C3_FailedIsEveryNonMarkerInOrder ==
    (ClassifyReturned /\ h_ret.ok) =>
        LET included(b) == ~IsMarker(the(b.status))
        IN  h_ret.val = SelectSeq(h_args, included)

\* a marker in another case is left out; the empty status and a near miss,
\* which stand on both sides of it, are kept in their order
C3_Witness ==
    /\ ClassifyReturned
    /\ h_ret.ok
    /\ Len(h_args) = 3
    /\ h_args[1].status = Some(st_empty)
    /\ h_args[2].status = Some(st_Build_Successful)
    /\ h_args[3].status = Some(st_building_dots)
    /\ h_ret.val = <<h_args[1], h_args[3]>>

-----------------------------------------------------------------------------
(* properties of builds_to_csv *)

CsvReturned == h_pc = "returned" /\ h_fn = "builds_to_csv"

\* the positions where the pattern starts in the text
Occurrences(text, pattern) ==
    {i \in 1..(Len(text) - Len(pattern) + 1) :
        text[i] = pattern[1] /\ SubSeq(text, i, i + Len(pattern) - 1) = pattern}

\* the elements of a set of numbers in increasing order
Ascending(S) ==
    [k \in 1..Cardinality(S) |->
        CHOOSE x \in S : Cardinality({y \in S : y < x}) = k - 1]

\* a position of a CSV text is outside quotes when an even number of quote
\* characters stands before it (a doubled quote counts twice)
OutsideQuotes(quotes, i) == Cardinality({q \in quotes : q < i}) % 2 = 0

\* a quoted field without its outer quotes and with every doubled quote as one
Unquote(raw) ==
    IF raw = <<>> \/ raw[1] # 34 THEN raw
    ELSE LET inner == SubSeq(raw, 2, Len(raw) - 1)
             quotes == {j \in 1..Len(inner) : inner[j] = 34}
             second(j) == j \in quotes /\ Cardinality({q \in quotes : q <= j}) % 2 = 0
             kept == Ascending({j \in 1..Len(inner) : ~second(j)})
         IN  [k \in 1..Len(kept) |-> inner[kept[k]]]

\* the pieces of text[from..to] between the cut positions, each cut being
\* width characters wide
Pieces(text, from, to, cuts, width) ==
    LET c == Ascending(cuts)
        start(k) == IF k = 1 THEN from ELSE c[k - 1] + width
        stop(k) == IF k <= Len(c) THEN c[k] - 1 ELSE to
    IN  [k \in 1..(Len(c) + 1) |-> [from |-> start(k), to |-> stop(k)]]

\* a CSV reader: the records of a text, each the list of its fields. A line
\* break outside quotes ends a record, a comma outside quotes ends a field.
CsvRecords(text) ==
    LET quotes == {i \in 1..Len(text) : text[i] = 34}
        breaks == {i \in Occurrences(text, <<13, 10>>) : OutsideQuotes(quotes, i)}
        commas == {i \in 1..Len(text) : text[i] = 44 /\ OutsideQuotes(quotes, i)}
        lines == Pieces(text, 1, Len(text), breaks, 2)
        \* the text after the last line break is a record only if it is not empty
        n == IF lines[Len(lines)].from > Len(text) THEN Len(lines) - 1 ELSE Len(lines)
        fields(l) ==
            LET mine == {c \in commas : l.from <= c /\ c <= l.to}
                fs == Pieces(text, l.from, l.to, mine, 1)
            IN  [k \in 1..Len(fs) |-> Unquote(SubSeq(text, fs[k].from, fs[k].to))]
    IN  [k \in 1..n |-> fields(lines[k])]

\* the text of a status in a CSV field: a missing status is the empty field
StatusText(status) == IF status = None THEN <<>> ELSE the(status)

\* C7: the CSV of n rows reads back as the record Branch,Build,Commit,Status,URL
\* followed by n records, the i-th holding the branch, name, commit, status
\* and url of the i-th row.
C7_CsvIsHeaderThenRowsInOrder ==
    CsvReturned =>
        LET records == CsvRecords(h_ret)
        IN  /\ Len(records) = Len(h_args) + 1
            /\ records[1] = <<hdr_Branch, hdr_Build, hdr_Commit, hdr_Status, hdr_URL>>
            /\ \A i \in 1..Len(h_args) :
                  records[i + 1] = <<h_args[i].branch, h_args[i].name, h_args[i].commit,
                                     StatusText(h_args[i].status), h_args[i].url>>

\* three different rows, of which one has a line break in its name and one a
\* comma, and the same row twice would show a dropped duplicate
C7_Witness ==
    /\ CsvReturned
    /\ Len(h_args) = 3
    /\ h_args[1].name = nm_lines
    /\ h_args[2].name = nm_comma
    /\ h_args[3] = h_args[2]
    /\ Len(CsvRecords(h_ret)) = 4

-----------------------------------------------------------------------------
(* properties of builds_to_html_table *)

HtmlReturned == h_pc = "returned" /\ h_fn = "builds_to_html_table"

\* the least element of S that is at least n
NextFrom(S, n) == CHOOSE x \in S : x >= n /\ \A y \in S : y >= n => x <= y

\* the sections of an HTML text: for every <h3> heading, in text order, the
\* branch it names and the link texts of the table that follows it
HtmlSections(text) ==
    LET heads == Ascending(Occurrences(text, h3_open))
        h3ends == Occurrences(text, h3_close)
        links == Ascending(Occurrences(text, a_mid))
        aends == Occurrences(text, a_close)
        section_end(k) == IF k < Len(heads) THEN heads[k + 1] ELSE Len(text) + 1
        link_text(p) == SubSeq(text, p + Len(a_mid), NextFrom(aends, p) - 1)
        in_section(k, p) == heads[k] < p /\ p < section_end(k)
    IN  [k \in 1..Len(heads) |->
            [branch |-> SubSeq(text, heads[k] + Len(h3_open),
                               NextFrom(h3ends, heads[k]) - 1),
             names |-> LET mine(p) == in_section(k, p)
                           ps == SelectSeq(links, mine)
                       IN  [j \in 1..Len(ps) |-> link_text(ps[j])]]]

\* how many elements of the sequence satisfy the test
Count(s, Test(_)) == Cardinality({i \in 1..Len(s) : Test(s[i])})

\* the place of the section of a branch
SectionOf(sections, branch) == CHOOSE k \in 1..Len(sections) : sections[k].branch = branch

\* the section of the first branch stands before the section of the second,
\* whenever the text has both
SectionBefore(sections, first, second) ==
    LET shown == {sections[k].branch : k \in 1..Len(sections)}
    IN  (first \in shown /\ second \in shown) =>
            SectionOf(sections, first) < SectionOf(sections, second)

\* in every section, every row of builder A stands before every row of builder b
UpperABeforeLowerB(sections) ==
    \A k \in 1..Len(sections) :
        \A i, j \in 1..Len(sections[k].names) :
            (sections[k].names[i] = nm_A /\ sections[k].names[j] = nm_b) => i < j

\* one section per distinct branch of the rows, the sections in strictly
\* descending order of the branch name; a section lists exactly the rows of
\* its branch, each once, by builder name ascending without regard to case
SectionsDescendingRowsByName(rows, sections) ==
    LET input_branches == {rows[i].branch : i \in 1..Len(rows)}
    IN  /\ Len(sections) = Cardinality(input_branches)
        /\ {sections[k].branch : k \in 1..Len(sections)} = input_branches
        /\ \A k \in 1..(Len(sections) - 1) :
              str_lt(sections[k + 1].branch, sections[k].branch)
        /\ \A k \in 1..Len(sections) :
              LET names == sections[k].names
                  on_branch(b) == b.branch = sections[k].branch
              IN  /\ Len(names) = Count(rows, on_branch)
                  /\ \A i \in 1..Len(rows) :
                        on_branch(rows[i]) =>
                            LET is_name(n) == n = rows[i].name
                                same(b) == on_branch(b) /\ b.name = rows[i].name
                            IN  Count(names, is_name) = Count(rows, same)
                  /\ \A j \in 1..(Len(names) - 1) :
                        ~str_lt(lower(names[j + 1]), lower(names[j]))

\* C6 as stated: one section per distinct branch, in strictly descending order
\* of the branch name, each with exactly the rows of its branch by builder
\* name ascending without regard to case; the "dev" section before "main"
\* and builder "A" before "b".
C6_Original_DevBeforeMain ==
    HtmlReturned =>
        LET sections == HtmlSections(h_ret)
        IN  /\ SectionsDescendingRowsByName(h_args, sections)
            /\ SectionBefore(sections, br_dev, br_main)
            /\ UpperABeforeLowerB(sections)

\* C6, amended: one section per distinct branch, in strictly descending order
\* of the branch name, each with exactly the rows of its branch by builder
\* name ascending without regard to case; descending order puts the "main"
\* section before "dev", and builder "A" stands before "b".
C6_HtmlSectionsDescendingRowsByName ==
    HtmlReturned =>
        LET sections == HtmlSections(h_ret)
        IN  /\ SectionsDescendingRowsByName(h_args, sections)
            /\ SectionBefore(sections, br_main, br_dev)
            /\ UpperABeforeLowerB(sections)

\* rows given as dev A, main b, main A: main is rendered before dev, and in
\* main A before b
C6_Witness ==
    /\ HtmlReturned
    /\ h_args = <<RowOn(br_dev, nm_A), RowOn(br_main, nm_b), RowOn(br_main, nm_A)>>
    /\ HtmlSections(h_ret) = << [branch |-> br_main, names |-> <<nm_A, nm_b>>],
                                [branch |-> br_dev, names |-> <<nm_A>>] >>

-----------------------------------------------------------------------------
(* properties of a run *)

\* the process has ended, by itself or by an exception
Ended == pc = "done" \/ exc # None

\* the call met what the documented interface promises: the configuration
\* loaded, the API answered 200 with a JSON object that has the key read and
\* whose changes have their builds, the relay was connected to, the relay
\* accepted the message
CallSucceeded(c) ==
    IF c.op = "load_config" THEN load_config(c.location, c.answer).ok
    ELSE IF c.op = "smtp_connect" THEN c.answer = "connected"
    ELSE IF c.op = "sendmail" THEN c.answer = "accepted"
    ELSE /\ c.answer.kind = "response"
         /\ c.answer.status = 200
         /\ c.answer.body # None
         /\ \/ /\ c.url = builders_url
               /\ "builders" \in DOMAIN the(c.answer.body)
            \/ /\ c.url # builders_url
               /\ "changes" \in DOMAIN the(c.answer.body)
               /\ \A i \in 1..Len(the(c.answer.body).changes) :
                      "builds" \in DOMAIN the(c.answer.body).changes[i]

AllCallsSucceeded == \A i \in 1..Len(calls) : CallSucceeded(calls[i])

\* the mail-send calls of the run
MailCalls ==
    LET is_mail(c) == c.op = "sendmail"
    IN  SelectSeq(calls, is_mail)

\* the rows the classification policy reports: every row whose status is none
\* of the four markers in any case
PolicyFailed(rows) ==
    LET included(b) == b.status = None \/ ~IsMarker(the(b.status))
    IN  SelectSeq(rows, included)

\* C4: a row whose build record had no state_string is in the accumulated
\* rows, and the classification of these rows does not raise.
C4_ClassificationAcceptsMissingStatus ==
    (\E i \in 1..Len(BUILDS) : BUILDS[i].status = None) =>
        ~(pc = "classify" /\ exc # None)

\* C5: a run whose external calls all succeeded ends with the success
\* message and no mail when no row failed, and otherwise with exactly one
\* mail, sent last, whose body is the HTML and whose attachment is the CSV of
\* the failed rows.
C5_QuietOrExactlyOneMail ==
    (Ended /\ AllCallsSucceeded) =>
        LET failed == PolicyFailed(BUILDS)
        IN  /\ pc = "done"
            /\ IF failed = <<>>
               THEN /\ MailCalls = <<>>
                    /\ stdout = <<"Grab a coffee and enjoy a bug free world!">>
               ELSE /\ Len(MailCalls) = 1
                    /\ calls[Len(calls)].op = "sendmail"
                    /\ stdout = <<>>
                    /\ MailCalls[1].msg.body.text = builds_to_html_table(failed)
                    /\ MailCalls[1].msg.attachment.payload = builds_to_csv(failed)

\* C8: a call that fails (no connection, a body that is not JSON, an error
\* status, a body of unexpected shape, a relay that cannot be reached or
\* refuses) is the last call of the run: the run has ended by an exception
\* and has not printed the success message.
C8_FailedCallAbortsRun ==
    \A i \in 1..Len(calls) :
        ~CallSucceeded(calls[i]) =>
            /\ i = Len(calls)
            /\ exc # None
            /\ stdout = <<>>

-----------------------------------------------------------------------------
(* the roster filter and the loop over the branches *)

\* the "builders" list the roster call answered, [] when the body had none
FetchedRoster ==
    LET body == the(calls[2].answer.body)
    IN  IF "builders" \in DOMAIN body THEN body.builders ELSE <<>>

\* the filter has been applied
Filtered == pc \in {"loop", "classify", "report", "done"}

\* the configured builder_filter as a list, [] when absent
ConfiguredFilter ==
    LET f == the(config).configuration.builder_filter
    IN  IF f = None THEN <<>> ELSE the(f)

InFilter(name) == \E i \in 1..Len(ConfiguredFilter) : ConfiguredFilter[i] = name

\* C9: once filtered, the roster used for the joins is the fetched roster when
\* builder_filter is absent or empty, and otherwise the fetched builders whose
\* name is in builder_filter, in roster order; so no accumulated row has a
\* name outside a non-empty builder_filter.
C9_RosterFilteredByBuilderFilter ==
    Filtered =>
        LET named(b) == InFilter(b.name)
        IN  /\ ConfiguredFilter = <<>> => builders = FetchedRoster
            /\ ConfiguredFilter # <<>> =>
                  /\ builders = SelectSeq(FetchedRoster, named)
                  /\ \A i \in 1..Len(BUILDS) : InFilter(BUILDS[i].name)

\* a filter that names A before b has dropped the middle one of three fetched
\* builders and kept the other two in the order of the roster, b before A,
\* and the rows of both kept builders have been accumulated in that order
C9_Witness ==
    /\ Filtered
    /\ ConfiguredFilter = <<nm_A, nm_b>>
    /\ Len(FetchedRoster) = 3
    /\ ~InFilter(FetchedRoster[2].name)
    /\ builders = <<FetchedRoster[1], FetchedRoster[3]>>
    /\ builders[1].name = nm_b
    /\ builders[2].name = nm_A
    /\ Len(BUILDS) >= 2
    /\ BUILDS[1].name = nm_b
    /\ BUILDS[2].name = nm_A

\* the number of iterations of the loop that have completed
BranchesDone == IF Filtered THEN branch_idx - 1 ELSE 0

\* the call of the k-th iteration
BranchCall(k) == calls[2 + k]

\* the "changes" list the k-th iteration was answered
ChangesOf(k) ==
    LET body == the(BranchCall(k).answer.body)
    IN  IF "changes" \in DOMAIN body THEN body.changes ELSE <<>>

\* what the k-th iteration has to add: nothing without a change, and else, for
\* every builder of the filtered roster that has a build in the first change,
\* in roster order, a row with the branch and revision of that change and the
\* status of the builder's last build there
ExpectedRows(k) ==
    IF ChangesOf(k) = <<>> THEN <<>>
    ELSE LET first == ChangesOf(k)[1]
             matched == Matched(builders, first.builds)
         IN  [j \in 1..Len(matched) |->
                 [name |-> matched[j].name,
                  branch |-> first.sourcestamp.branch,
                  commit |-> first.sourcestamp.revision,
                  status |-> LastBuild(first.builds, matched[j].builderid).state_string]]

RECURSIVE ExpectedUpTo(_)
ExpectedUpTo(k) == IF k = 0 THEN <<>> ELSE ExpectedUpTo(k - 1) \o ExpectedRows(k)

\* a row without its url
WithoutUrl(b) == [name |-> b.name, branch |-> b.branch, commit |-> b.commit, status |-> b.status]

\* the loop has fetched the first BranchesDone branches of the configuration,
\* in order, one call each, and the accumulated rows are what these
\* iterations have to add, in order
LoopInOrder ==
    /\ \A k \in 1..BranchesDone :
          /\ BranchCall(k).op = "GET"
          /\ BranchCall(k).url = changes_url(branches[k])
    /\ [i \in 1..Len(BUILDS) |-> WithoutUrl(BUILDS[i])] = ExpectedUpTo(BranchesDone)

\* a step of the loop keeps the accumulated rows as a prefix; a step answered
\* with no change completes without an error and adds nothing
LoopStep ==
    /\ IsPrefix(BUILDS, BUILDS')
    /\ (pc = "loop" /\ Len(calls') > Len(calls)) =>
          LET answer == calls'[Len(calls')].answer
          IN  (answer.kind = "response" /\ answer.body # None
                  /\ "changes" \in DOMAIN the(answer.body)
                  /\ the(answer.body).changes = <<>>) =>
                    /\ exc' = None
                    /\ BUILDS' = BUILDS
                    /\ branch_idx' = branch_idx + 1

\* C10: the branches are fetched one at a time in configuration order; every
\* step keeps the rows accumulated before as a prefix; a branch without a
\* change adds nothing and is no error; a branch with changes adds the join of
\* the filtered roster with the builds of the first change only, in roster
\* order.
C10_BranchesInOrderRowsAppended == [](LoopInOrder) /\ [][LoopStep]_vars

\* two branches done: the first was answered two changes and gave a row of
\* the first change, the second was answered no change
C10_Witness ==
    /\ Filtered
    /\ BranchesDone = 2
    /\ branches[1] # branches[2]
    /\ Len(ChangesOf(1)) = 2
    /\ ChangesOf(2) = <<>>
    /\ Len(builders) = 2
    /\ Len(BUILDS) = 1
    /\ BUILDS[1].commit = ChangesOf(1)[1].sourcestamp.revision

====
